---- MODULE Spec2Model ----
(***************************************************************************)
(* Model of the Solibri MCP server: the job execution engine               *)
(* (solibri/autorun.js: generateXml, escapeXml, executeAutorun) and the    *)
(* SSE session registry of the two server entrypoints (index.js).          *)
(***************************************************************************)
EXTENDS Integers, Sequences, FiniteSets, TLC

(***************************************************************************)
(* Bounds of the model.                                                    *)
(***************************************************************************)
NumJobs == 2          \* executeAutorun invocations that may overlap
MaxChunks == 2        \* output chunks one process writes (stdout + stderr)
MaxPosts == 2         \* follow-up requests posted to /messages
MaxSessions == 2      \* streaming connections opened
NumClients == 2       \* clients opening streaming connections
MaxPieces == 3        \* pieces a string handed to escapeXml is made of
MaxTimeout == 4       \* largest timeoutMs handed to waitUntilIdle
MaxInterval == 2      \* largest pollIntervalMs handed to waitUntilIdle
MaxLatency == 2       \* longest time one status request takes to answer

Jobs == 1 .. NumJobs
Clients == 1 .. NumClients
\* session numbers, in the order of registration; registrations go one
\* further than MaxSessions where only authenticated requests are followed
Sessions == 1 .. MaxSessions + 1

(***************************************************************************)
(* Values of the environment.                                              *)
(***************************************************************************)
Chunks == {<<"a">>, <<"b">>}     \* data.toString() of one 'data' event
NullCode == -1                   \* code === null: process ended by a signal
SpawnFailCode == -2              \* code of 'close' after a failed spawn (ENOENT)
ExitCodes == {0, 1}              \* codes a process exits with on its own
NoFile == <<>>                   \* a path with no file
NoJobId == 0

VARIABLES
  keepXmlFiles,   \* config.AUTORUN.keepXmlFiles
  nextUuid,       \* uuidv4(): ids handed out so far
  jobId,          \* jobId of each invocation
  files,          \* file system below config.SOLIBRI.autorunDir: path -> text
  procState,      \* proc: "none" | "spawnFailed" | "errored" | "running" | "exited" | "closed"
  exitCode,       \* code the 'close' event will carry
  onTerm,         \* what the process does on SIGTERM: "die" | "ignore"
  sigPending,     \* a SIGTERM was delivered and not yet acted on
  kills,          \* proc.kill('SIGTERM') calls
  stdout,         \* let stdout
  stderr,         \* let stderr
  received,       \* chunks handed to the data handlers, in arrival order
  timer,          \* timeout: "unset" | "armed" | "fired" | "cleared"
  result,         \* state of the promise returned by executeAutorun
  events,         \* terminal events whose handler ran, in order
  unlinkFailed,   \* fs.unlinkSync threw in the close handler
  xml,            \* const xml = generateXml(commands)
  variant,        \* entrypoint: "Server" | "McpServer"
  transports,     \* const transports = new Map()  (keys in insertion order)
  owner,          \* client of each session
  closeHook,      \* where the entrypoint put its disconnect handler
  open,           \* sessions whose stream is still connected
  nextSession,    \* sessions created so far
  posts,          \* follow-up requests handled so far
  lastGet,        \* the latest request to /sse and its answer
  toolCall,       \* the latest protocol request and what became of it
  rendered,       \* the latest command list rendered and its script
  escaped,        \* the latest string escaped and its escaped form
  wait,           \* the latest call of waitUntilIdle and the clock it reads
  proxy           \* the latest request of the REST client and how it ended

jobVars == <<keepXmlFiles, nextUuid, jobId, files, procState, exitCode, onTerm,
             sigPending, kills, stdout, stderr, received, timer, result,
             events, unlinkFailed, xml>>
sessionVars == <<variant, transports, owner, closeHook, open, nextSession, posts,
                 lastGet>>
pureVars == <<toolCall, rendered, escaped, wait, proxy>>
vars == <<jobVars, sessionVars, pureVars>>

(***************************************************************************)
(* path.join(config.SOLIBRI.autorunDir, `${jobId}.xml`)                    *)
(***************************************************************************)
\* one script path for every job
SharedXmlPath(id) == <<"autorun", 0, ".xml">>

XmlPath(id) == <<"autorun", id, ".xml">>

Paths == {XmlPath(id) : id \in 1 .. NumJobs}

(***************************************************************************)
(* Command script builder.  A string is a sequence of one-character        *)
(* strings; the literal pieces of a template are kept as single tokens.    *)
(* Undefined is the value of a field the command does not carry.           *)
(***************************************************************************)
Undefined == <<"undefined">>
Empty == <<>>

Cmd(type) == [type |-> type, file |-> Undefined, name |-> Undefined,
              templatefile |-> Undefined, title |-> Undefined,
              version |-> Undefined, snapshots |-> Undefined]

\* JavaScript truthiness of a string-or-undefined value
Truthy(v) == v # Undefined /\ v # Empty

RECURSIVE ReplaceAll(_, _, _)
\* str.replace(/ch/g, rep)
ReplaceAll(str, ch, rep) ==
  IF str = <<>> THEN <<>>
  ELSE (IF Head(str) = ch THEN rep ELSE <<Head(str)>>) \o ReplaceAll(Tail(str), ch, rep)

\* escapeXml with the ampersand replaced last
EscapeAmpLast(str) ==
  IF ~Truthy(str) THEN <<>>
  ELSE LET s1 == ReplaceAll(str, "<", <<"&", "l", "t", ";">>)
           s2 == ReplaceAll(s1, ">", <<"&", "g", "t", ";">>)
           s3 == ReplaceAll(s2, "\"", <<"&", "q", "u", "o", "t", ";">>)
           s4 == ReplaceAll(s3, "'", <<"&", "a", "p", "o", "s", ";">>)
       IN  ReplaceAll(s4, "&", <<"&", "a", "m", "p", ";">>)

EscapeXml(str) ==
  IF ~Truthy(str) THEN <<>>
  ELSE LET s1 == ReplaceAll(str, "&", <<"&", "a", "m", "p", ";">>)
           s2 == ReplaceAll(s1, "<", <<"&", "l", "t", ";">>)
           s3 == ReplaceAll(s2, ">", <<"&", "g", "t", ";">>)
           s4 == ReplaceAll(s3, "\"", <<"&", "q", "u", "o", "t", ";">>)
       IN  ReplaceAll(s4, "'", <<"&", "a", "p", "o", "s", ";">>)

\* `  <tag file="${escapeXml(cmd.file)}" />`
FileLine(tag, cmd) == <<"  <", tag, " file=\"">> \o EscapeXml(cmd.file) \o <<"\" />">>

ItoReportAttrs(cmd) ==
  <<"file=\"">> \o EscapeXml(cmd.file) \o <<"\"">>
  \o (IF Truthy(cmd.templatefile)
      THEN <<" templatefile=\"">> \o EscapeXml(cmd.templatefile) \o <<"\"">> ELSE <<>>)
  \o (IF Truthy(cmd.title)
      THEN <<" title=\"">> \o EscapeXml(cmd.title) \o <<"\"">> ELSE <<>>)
  \o (IF Truthy(cmd.name)
      THEN <<" name=\"">> \o EscapeXml(cmd.name) \o <<"\"">> ELSE <<>>)

BcfAttrs(cmd) ==
  <<"file=\"">> \o EscapeXml(cmd.file) \o <<"\"">>
  \o (IF Truthy(cmd.version) THEN <<" version=\"">> \o cmd.version \o <<"\"">> ELSE <<>>)

AcAttrs(cmd) ==
  IF cmd.snapshots # Undefined
  THEN <<" snapshots=\"">> \o cmd.snapshots \o <<"\"">> ELSE <<>>

FileTags == {"openmodel", "updatemodel", "savemodel", "openclassification",
             "openruleset", "openito"}
BareTags == {"check", "createpresentation", "updatepresentation",
             "autoupdatemodels", "exit"}

\* the lines one command pushes (none for an unknown type)
CmdLines(cmd) ==
  IF cmd.type \in FileTags THEN << FileLine(cmd.type, cmd) >>
  ELSE IF cmd.type \in BareTags THEN << <<"  <", cmd.type, " />">> >>
  ELSE IF cmd.type = "takeoff" THEN
    (IF Truthy(cmd.name)
     THEN << <<"  <takeoff name=\"">> \o EscapeXml(cmd.name) \o <<"\" />">> >>
     ELSE << <<"  <takeoff />">> >>)
  ELSE IF cmd.type = "itoreport" THEN << <<"  <itoreport ">> \o ItoReportAttrs(cmd) \o <<" />">> >>
  ELSE IF cmd.type = "bcfreport" THEN << <<"  <bcfreport ">> \o BcfAttrs(cmd) \o <<" />">> >>
  ELSE IF cmd.type = "autocomment" THEN << <<"  <autocomment">> \o AcAttrs(cmd) \o <<" />">> >>
  ELSE <<>>

RECURSIVE PushAll(_)
PushAll(commands) ==
  IF commands = <<>> THEN <<>>
  ELSE CmdLines(Head(commands)) \o PushAll(Tail(commands))

GenerateXml(commands) ==
  << <<"<?xml version=\"1.0\" encoding=\"UTF-8\"?>">>, <<"<autorun>">> >>
  \o PushAll(commands)
  \o << <<"</autorun>">> >>

\* command lists handed to executeAutorun in the job model
CheckCommands == << [Cmd("openmodel") EXCEPT !.file = <<"m">>], Cmd("check"), Cmd("exit") >>
OpenCommands == << [Cmd("openmodel") EXCEPT !.file = <<"&">>], Cmd("exit") >>
\* an argument generateXml cannot iterate (executeAutorun(undefined))
NotIterable == << [Cmd("undefined") EXCEPT !.file = <<"not iterable">>] >>
CommandLists == {CheckCommands, OpenCommands, NotIterable}

\* for (const cmd of commands) throws a TypeError
RenderThrows(commands) == commands = NotIterable

(***************************************************************************)
(* The promise returned by executeAutorun.  resolve and reject act on a    *)
(* pending promise only: a settled promise ignores every later call.       *)
(***************************************************************************)
Pending ==
  [state |-> "pending", kind |-> "none", jobId |-> NoJobId, code |-> 0,
   stdout |-> <<>>, stderr |-> <<>>, detail |-> <<>>]

\* resolve({ jobId, success: true, code, stdout, stderr })
Success(id, code, out, err) ==
  [state |-> "resolved", kind |-> "success", jobId |-> id, code |-> code,
   stdout |-> out, stderr |-> err, detail |-> <<>>]

\* a failure message built from `${stdout || stderr}`
ExitErrorStdoutFirst(code, out, err) ==
  [state |-> "rejected", kind |-> "exit", jobId |-> NoJobId, code |-> code,
   stdout |-> <<>>, stderr |-> <<>>, detail |-> IF out # <<>> THEN out ELSE err]

\* new Error(`Autorun exited with code ${code}: ${stderr || stdout}`)
ExitError(code, out, err) ==
  [state |-> "rejected", kind |-> "exit", jobId |-> NoJobId, code |-> code,
   stdout |-> <<>>, stderr |-> <<>>, detail |-> IF err # <<>> THEN err ELSE out]

\* new Error(`Autorun timed out after ${config.AUTORUN.timeout}ms`)
TimeoutError ==
  [state |-> "rejected", kind |-> "timeout", jobId |-> NoJobId, code |-> 0,
   stdout |-> <<>>, stderr |-> <<>>, detail |-> <<>>]

\* new Error(`Failed to start Solibri: ${err.message}`)
StartError ==
  [state |-> "rejected", kind |-> "start", jobId |-> NoJobId, code |-> 0,
   stdout |-> <<>>, stderr |-> <<>>, detail |-> <<"spawn ENOENT">>]

\* an exception of the synchronous part rejects the async function's promise
Exception ==
  [state |-> "rejected", kind |-> "exception", jobId |-> NoJobId, code |-> 0,
   stdout |-> <<>>, stderr |-> <<>>, detail |-> <<>>]

\* a promise that lets the last call win
SettleLast(cur, outcome) == outcome

Settle(cur, outcome) == IF cur.state = "pending" THEN outcome ELSE cur

\* a timer callback that signals the process and leaves the promise alone
OnTimeoutKillOnly(cur) == cur

\* reject(new Error(`Autorun timed out after ${config.AUTORUN.timeout}ms`))
OnTimeout(cur) == Settle(cur, TimeoutError)

\* a handler that leaves the timer running
KeepTimeout(t) == t

\* clearTimeout(timeout)
ClearTimeout(t) == IF t = "armed" THEN "cleared" ELSE t

\* a timer callback that does not signal the process
NoKill(n) == n

\* proc.kill('SIGTERM'), counted
Kill(n) == n + 1

\* a close handler that deletes the script whatever the flag says
CleansAlways(keep) == TRUE

\* if (!config.AUTORUN.keepXmlFiles)
Cleans(keep) == ~keep

\* a cleanup whose exception leaves the close handler
CleanupRethrows(unlinkOk) == ~unlinkOk

\* try { fs.unlinkSync(xmlPath) } catch (e) {}: does an exception escape?
CleanupThrows(unlinkOk) == FALSE

\* a data handler that keeps the last chunk only
LastData(buffer, data) == data

\* stdout += data.toString()
AppendData(buffer, data) == buffer \o data

Settled(j) == result[j].state # "pending"
FileExists(p) == files[p] # NoFile

(***************************************************************************)
(* Initial state: no invocation yet, empty scratch directory.              *)
(***************************************************************************)
JobInit ==
  /\ keepXmlFiles \in BOOLEAN
  /\ nextUuid = 0
  /\ jobId = [j \in Jobs |-> NoJobId]
  /\ files = [p \in Paths |-> NoFile]
  /\ procState = [j \in Jobs |-> "none"]
  /\ exitCode = [j \in Jobs |-> 0]
  /\ onTerm = [j \in Jobs |-> "die"]
  /\ sigPending = [j \in Jobs |-> FALSE]
  /\ kills = [j \in Jobs |-> 0]
  /\ stdout = [j \in Jobs |-> <<>>]
  /\ stderr = [j \in Jobs |-> <<>>]
  /\ received = [j \in Jobs |-> <<>>]
  /\ timer = [j \in Jobs |-> "unset"]
  /\ result = [j \in Jobs |-> Pending]
  /\ events = [j \in Jobs |-> <<>>]
  /\ unlinkFailed = [j \in Jobs |-> FALSE]
  /\ xml = [j \in Jobs |-> <<>>]

(***************************************************************************)
(* executeAutorun(commands): the synchronous part up to the return of the  *)
(* promise.  writeOk: fs.writeFileSync succeeds; spawnOk: the executable   *)
(* can be started; term: how the process reacts to SIGTERM.                *)
(***************************************************************************)
\* a synchronous part that carries on after a failed render or write
ProceedsAnyway(renderOk, writeOk) == TRUE

\* execution reaches new Promise(...) only if generateXml and
\* fs.writeFileSync returned
Proceeds(renderOk, writeOk) == renderOk /\ writeOk

ExecuteAutorun(j, commands, writeOk, spawnOk, term) ==
  /\ jobId[j] = NoJobId
  /\ \A k \in Jobs : k < j => jobId[k] # NoJobId
  /\ LET id == nextUuid + 1
         renderOk == ~RenderThrows(commands)
         text == IF renderOk THEN GenerateXml(commands) ELSE <<>>
     IN  /\ nextUuid' = id
         /\ jobId' = [jobId EXCEPT ![j] = id]
         /\ xml' = [xml EXCEPT ![j] = text]
         /\ files' = IF renderOk /\ writeOk THEN [files EXCEPT ![XmlPath(id)] = text]
                     ELSE files
         /\ IF Proceeds(renderOk, writeOk)
            THEN /\ procState' = [procState EXCEPT ![j] =
                                    IF spawnOk THEN "running" ELSE "spawnFailed"]
                 /\ onTerm' = [onTerm EXCEPT ![j] = term]
                 /\ timer' = [timer EXCEPT ![j] = "armed"]
                 /\ UNCHANGED result
            ELSE /\ result' = [result EXCEPT ![j] = Settle(@, Exception)]
                 /\ UNCHANGED <<procState, onTerm, timer>>
  /\ UNCHANGED <<keepXmlFiles, exitCode, sigPending, kills, stdout, stderr,
                 received, events, unlinkFailed>>
  /\ UNCHANGED <<sessionVars, pureVars>>

\* proc.stdout.on('data', ...)
StdoutData(j, data) ==
  /\ procState[j] \in {"running", "exited"}
  /\ Len(received[j]) < MaxChunks
  /\ stdout' = [stdout EXCEPT ![j] = AppendData(@, data)]
  /\ received' = [received EXCEPT ![j] = Append(@, <<"stdout", data>>)]
  /\ UNCHANGED <<keepXmlFiles, nextUuid, jobId, files, procState, exitCode,
                 onTerm, sigPending, kills, stderr, timer, result, events,
                 unlinkFailed, xml>>
  /\ UNCHANGED <<sessionVars, pureVars>>

\* proc.stderr.on('data', ...)
StderrData(j, data) ==
  /\ procState[j] \in {"running", "exited"}
  /\ Len(received[j]) < MaxChunks
  /\ stderr' = [stderr EXCEPT ![j] = AppendData(@, data)]
  /\ received' = [received EXCEPT ![j] = Append(@, <<"stderr", data>>)]
  /\ UNCHANGED <<keepXmlFiles, nextUuid, jobId, files, procState, exitCode,
                 onTerm, sigPending, kills, stdout, timer, result, events,
                 unlinkFailed, xml>>
  /\ UNCHANGED <<sessionVars, pureVars>>

\* the external process ends on its own with an exit code
ProcExit(j, code) ==
  /\ procState[j] = "running"
  /\ procState' = [procState EXCEPT ![j] = "exited"]
  /\ exitCode' = [exitCode EXCEPT ![j] = code]
  /\ sigPending' = [sigPending EXCEPT ![j] = FALSE]
  /\ UNCHANGED <<keepXmlFiles, nextUuid, jobId, files, onTerm, kills, stdout,
                 stderr, received, timer, result, events, unlinkFailed, xml>>
  /\ UNCHANGED <<sessionVars, pureVars>>

\* the external process is ended by the SIGTERM it received
ProcKilled(j) ==
  /\ procState[j] = "running"
  /\ sigPending[j]
  /\ procState' = [procState EXCEPT ![j] = "exited"]
  /\ exitCode' = [exitCode EXCEPT ![j] = NullCode]
  /\ sigPending' = [sigPending EXCEPT ![j] = FALSE]
  /\ UNCHANGED <<keepXmlFiles, nextUuid, jobId, files, onTerm, kills, stdout,
                 stderr, received, timer, result, events, unlinkFailed, xml>>
  /\ UNCHANGED <<sessionVars, pureVars>>

\* setTimeout(() => { proc.kill('SIGTERM'); reject(...) }, config.AUTORUN.timeout)
\* A failed spawn emits 'error' on the next tick, before any timer can run.
TimerFire(j) ==
  /\ timer[j] = "armed"
  /\ procState[j] # "spawnFailed"
  /\ timer' = [timer EXCEPT ![j] = "fired"]
  /\ kills' = [kills EXCEPT ![j] = Kill(@)]
  /\ sigPending' = [sigPending EXCEPT ![j] =
                      procState[j] = "running" /\ onTerm[j] = "die"]
  /\ result' = [result EXCEPT ![j] = OnTimeout(@)]
  /\ events' = [events EXCEPT ![j] = Append(@, <<"timeout", 0>>)]
  /\ UNCHANGED <<keepXmlFiles, nextUuid, jobId, files, procState, exitCode,
                 onTerm, stdout, stderr, received, unlinkFailed, xml>>
  /\ UNCHANGED <<sessionVars, pureVars>>

\* proc.on('close', (code) => ...); unlinkOk: fs.unlinkSync does not throw
CloseEvent(j, unlinkOk) ==
  /\ procState[j] \in {"exited", "errored"}
  /\ procState' = [procState EXCEPT ![j] = "closed"]
  /\ timer' = [timer EXCEPT ![j] = ClearTimeout(@)]
  /\ IF Cleans(keepXmlFiles)
     THEN /\ files' = IF unlinkOk THEN [files EXCEPT ![XmlPath(jobId[j])] = NoFile]
                                  ELSE files
          /\ unlinkFailed' = [unlinkFailed EXCEPT ![j] = ~unlinkOk]
     ELSE /\ unlinkOk
          /\ UNCHANGED <<files, unlinkFailed>>
  /\ result' = [result EXCEPT ![j] =
                  IF Cleans(keepXmlFiles) /\ CleanupThrows(unlinkOk) THEN @
                  ELSE IF exitCode[j] = 0
                  THEN Settle(@, Success(jobId[j], exitCode[j], stdout[j], stderr[j]))
                  ELSE Settle(@, ExitError(exitCode[j], stdout[j], stderr[j]))]
  /\ events' = [events EXCEPT ![j] = Append(@, <<"close", exitCode[j]>>)]
  /\ UNCHANGED <<keepXmlFiles, nextUuid, jobId, exitCode, onTerm, sigPending,
                 kills, stdout, stderr, received, xml>>
  /\ UNCHANGED <<sessionVars, pureVars>>

\* proc.on('error', (err) => ...): the executable could not be started
ErrorEvent(j) ==
  /\ procState[j] = "spawnFailed"
  /\ procState' = [procState EXCEPT ![j] = "errored"]
  /\ exitCode' = [exitCode EXCEPT ![j] = SpawnFailCode]
  /\ timer' = [timer EXCEPT ![j] = ClearTimeout(@)]
  /\ result' = [result EXCEPT ![j] = Settle(@, StartError)]
  /\ events' = [events EXCEPT ![j] = Append(@, <<"error", 0>>)]
  /\ UNCHANGED <<keepXmlFiles, nextUuid, jobId, files, onTerm, sigPending,
                 kills, stdout, stderr, received, unlinkFailed, xml>>
  /\ UNCHANGED <<sessionVars, pureVars>>

\* every event of invocation j, with every input of the environment
JobStep(j) ==
  \/ \E commands \in CommandLists, writeOk \in BOOLEAN, spawnOk \in BOOLEAN,
        term \in {"die", "ignore"} :
       ExecuteAutorun(j, commands, writeOk, spawnOk, term)
  \/ \E data \in Chunks : StdoutData(j, data)
  \/ \E data \in Chunks : StderrData(j, data)
  \/ \E code \in ExitCodes : ProcExit(j, code)
  \/ ProcKilled(j)
  \/ TimerFire(j)
  \/ \E unlinkOk \in BOOLEAN : CloseEvent(j, unlinkOk)
  \/ ErrorEvent(j)

\* one invocation, followed through all its events
JobNext == JobStep(1)

\* overlapping invocations: consecutive calls get different command lists,
\* every process starts, dies of SIGTERM and writes at most one chunk
ConcStep(j) ==
  \/ ExecuteAutorun(j, IF j % 2 = 1 THEN CheckCommands ELSE OpenCommands,
                    TRUE, TRUE, "die")
  \/ received[j] = <<>> /\ StdoutData(j, <<"a">>)
  \/ received[j] = <<>> /\ StderrData(j, <<"b">>)
  \/ \E code \in ExitCodes : ProcExit(j, code)
  \/ ProcKilled(j)
  \/ TimerFire(j)
  \/ CloseEvent(j, TRUE)

ConcNext == \E j \in Jobs : ConcStep(j)

\* overlapping invocations without output, whose process starts or fails to
\* start and dies of SIGTERM or ignores it
CancelStep(j) ==
  \/ \E spawnOk \in BOOLEAN, term \in {"die", "ignore"} :
       ExecuteAutorun(j, CheckCommands, TRUE, spawnOk, term)
  \/ \E code \in ExitCodes : ProcExit(j, code)
  \/ ProcKilled(j)
  \/ TimerFire(j)
  \/ CloseEvent(j, TRUE)
  \/ ErrorEvent(j)

(***************************************************************************)
(* Session registry and request router (index.js, both entrypoints).       *)
(***************************************************************************)
AuthToken == "secret"            \* config.SSE.authToken
NoHeader == <<>>                 \* request without an Authorization header
Headers == {NoHeader, <<"Basic ", "secret">>, <<"Bearer ", "secret">>,
            <<"Bearer ", "wrong">>}
NoSession == 0

\* a middleware that accepts every Bearer token
AuthenticateAnyToken(authHeader) ==
  IF authHeader = NoHeader \/ authHeader[1] # "Bearer " THEN 401 ELSE 0

\* authenticate(req, res, next): the status it answers, 0 when it calls next()
Authenticate(authHeader) ==
  IF authHeader = NoHeader \/ authHeader[1] # "Bearer " THEN 401
  ELSE IF authHeader[2] # AuthToken THEN 403
  ELSE 0

\* where each entrypoint installs the handler that deletes the session
CloseHookOf(v) == IF v = "Server" THEN "req.on('close')" ELSE "transport.onClose"

\* what a disconnect invokes: the listeners of the request's 'close' event
\* and the transport's onclose callback (set by server.connect)
FiredOnDisconnect == {"req.on('close')", "transport.onclose"}

\* transports.delete(transport)
RECURSIVE MapDelete(_, _)
MapDelete(keys, t) ==
  IF keys = <<>> THEN <<>>
  ELSE IF Head(keys) = t THEN Tail(keys)
  ELSE <<Head(keys)>> \o MapDelete(Tail(keys), t)

\* a router that takes the latest session
LastKey(keys) == IF keys = <<>> THEN NoSession ELSE keys[Len(keys)]

\* const [transport] = transports.keys()
FirstKey(keys) == IF keys = <<>> THEN NoSession ELSE Head(keys)

SessionInit ==
  /\ variant \in {"Server", "McpServer"}
  /\ transports = <<>>
  /\ owner = [s \in Sessions |-> 0]
  /\ closeHook = [s \in Sessions |-> "none"]
  /\ open = {}
  /\ nextSession = 0
  /\ posts = <<>>
  /\ lastGet = [made |-> FALSE, auth |-> NoHeader, answer |-> 0, session |-> NoSession]

\* app.get('/sse', authenticate, ...) requested by client c
Connect(c, authHeader) ==
  LET st == Authenticate(authHeader)
      s == nextSession + 1
  IN  IF st # 0
      THEN /\ lastGet' = [made |-> TRUE, auth |-> authHeader, answer |-> st,
                        session |-> NoSession]
           /\ UNCHANGED <<variant, transports, owner, closeHook, open,
                          nextSession, posts>>
           /\ UNCHANGED <<jobVars, pureVars>>
      ELSE /\ s \in Sessions
           /\ nextSession' = s
           /\ owner' = [owner EXCEPT ![s] = c]
           /\ transports' = Append(transports, s)
           /\ closeHook' = [closeHook EXCEPT ![s] = CloseHookOf(variant)]
           /\ open' = open \cup {s}
           /\ lastGet' = [made |-> TRUE, auth |-> authHeader, answer |-> 0, session |-> s]
           /\ UNCHANGED <<variant, posts>>
           /\ UNCHANGED <<jobVars, pureVars>>

\* the client of session s goes away
Disconnect(s) ==
  /\ s \in open
  /\ open' = open \ {s}
  /\ transports' = IF closeHook[s] \in FiredOnDisconnect
                   THEN MapDelete(transports, s) ELSE transports
  /\ UNCHANGED <<variant, owner, closeHook, nextSession, posts, lastGet>>
  /\ UNCHANGED <<jobVars, pureVars>>

\* app.post('/messages', authenticate, ...): a follow-up request that belongs
\* to session s (sent by the client of s)
Post(s, authHeader) ==
  /\ Len(posts) < MaxPosts
  /\ owner[s] # 0
  /\ LET st == Authenticate(authHeader)
         transport == FirstKey(transports)
         seen == [of |-> s, sender |-> owner[s], auth |-> authHeader,
                  registry |-> transports, nopen |-> Cardinality(open),
                  opened |-> open,
                  answer |-> 0, to |-> NoSession, live |-> FALSE]
         entry == IF st # 0
                  THEN [seen EXCEPT !.answer = st]
                  ELSE IF transport # NoSession
                  THEN [seen EXCEPT !.to = transport, !.live = transport \in open]
                  ELSE [seen EXCEPT !.answer = 400]
     IN  posts' = Append(posts, entry)
  /\ UNCHANGED <<variant, transports, owner, closeHook, open, nextSession,
                 lastGet>>
  /\ UNCHANGED <<jobVars, pureVars>>

SessionNext ==
  \/ \E c \in Clients, h \in Headers :
       (nextSession < MaxSessions \/ Authenticate(h) # 0) /\ Connect(c, h)
  \/ \E s \in Sessions : Disconnect(s)
  \/ \E s \in Sessions, h \in Headers : Post(s, h)

(***************************************************************************)
(* Tool dispatch table (index.js, TOOLS) and the protocol handler.  The    *)
(* outcome of the call a handler makes is an input: env.job is how the     *)
(* promise of executeAutorun settles, env.fsFault whether fs.readdirSync   *)
(* throws, env.ping / about / status how the three proxy calls end.        *)
(***************************************************************************)
UndefinedList == << <<"undefined">> >>     \* an array argument that is absent
Null == <<"null">>

NoArgs ==
  [type |-> Undefined, modelPath |-> Undefined, rulesets |-> UndefinedList,
   classifications |-> UndefinedList, outputBcf |-> Undefined,
   outputSmc |-> Undefined, itoFile |-> Undefined, outputExcel |-> Undefined,
   templateFile |-> Undefined, itoName |-> Undefined, title |-> Undefined,
   ifcFiles |-> UndefinedList, smcPath |-> Undefined]

\* what a handler did: returned an envelope or threw; called: it invoked
\* executeAutorun with commands
Returned(tool, isError, text, called, commands) ==
  [kind |-> "return", tool |-> tool, isError |-> isError, text |-> text,
   called |-> called, commands |-> commands, code |-> 0]
Thrown(tool) ==
  [kind |-> "throw", tool |-> tool, isError |-> FALSE, text |-> <<>>,
   called |-> FALSE, commands |-> <<>>, code |-> 0]

\* { type: tag, file: file }
FileCmd(tag, file) == [Cmd(tag) EXCEPT !.file = file]

RECURSIVE FileCmds(_, _)
\* for (const f of list) commands.push({ type: tag, file: f })
FileCmds(tag, list) ==
  IF list = <<>> THEN <<>>
  ELSE <<FileCmd(tag, Head(list))>> \o FileCmds(tag, Tail(list))

\* classifications = []
OrEmpty(list) == IF list = UndefinedList THEN <<>> ELSE list

\* try { await autorun.executeAutorun(commands); ... } catch (error) { ... }
RunJob(tool, commands, env, outputs) ==
  IF env.job.state = "resolved"
  THEN Returned(tool, FALSE, << <<"success">> >> \o outputs, TRUE, commands)
  ELSE Returned(tool, TRUE, << <<"Error">>, <<env.job.kind>> >>, TRUE, commands)

\* listAssets(type) reaches fs.readdirSync for a type it knows
ValidTypes == {<<"classifications">>, <<"rulesets">>, <<"ito">>, <<"templates">>}

ListAssetsHandler(args, env) ==
  IF args.type \in ValidTypes /\ env.fsFault THEN Thrown("solibri_list_assets")
  ELSE Returned("solibri_list_assets", FALSE,
                <<args.type, IF args.type \in ValidTypes THEN <<"assets">> ELSE <<>> >>,
                FALSE, <<>>)

\* a command list that runs the check before the rulesets are opened
CheckBeforeRulesets(args) ==
  <<FileCmd("openmodel", args.modelPath)>>
  \o FileCmds("openclassification", OrEmpty(args.classifications))
  \o <<Cmd("check")>>
  \o FileCmds("openruleset", args.rulesets)
  \o (IF Truthy(args.outputBcf)
      THEN <<[Cmd("bcfreport") EXCEPT !.file = args.outputBcf,
                                      !.version = <<"2", ".", "1">>]>>
      ELSE <<>>)
  \o (IF Truthy(args.outputSmc) THEN <<FileCmd("savemodel", args.outputSmc)>> ELSE <<>>)
  \o <<Cmd("exit")>>

CheckModelCommands(args) ==
  <<FileCmd("openmodel", args.modelPath)>>
  \o FileCmds("openclassification", OrEmpty(args.classifications))
  \o FileCmds("openruleset", args.rulesets)
  \o <<Cmd("check")>>
  \o (IF Truthy(args.outputBcf)
      THEN <<[Cmd("bcfreport") EXCEPT !.file = args.outputBcf,
                                      !.version = <<"2", ".", "1">>]>>
      ELSE <<>>)
  \o (IF Truthy(args.outputSmc) THEN <<FileCmd("savemodel", args.outputSmc)>> ELSE <<>>)
  \o <<Cmd("exit")>>

CheckModelHandler(args, env) ==
  IF args.rulesets = UndefinedList THEN Thrown("solibri_check_model")
  ELSE RunJob("solibri_check_model", CheckModelCommands(args), env,
              <<args.outputBcf, args.outputSmc>>)

TakeoffCommands(args) ==
  << FileCmd("openmodel", args.modelPath),
     FileCmd("openito", args.itoFile),
     [Cmd("takeoff") EXCEPT !.name = args.itoName],
     [Cmd("itoreport") EXCEPT !.file = args.outputExcel,
                              !.templatefile = args.templateFile,
                              !.name = args.itoName, !.title = args.title],
     Cmd("exit") >>

TakeoffHandler(args, env) ==
  RunJob("solibri_quantity_takeoff", TakeoffCommands(args), env, <<args.outputExcel>>)

CreateModelCommands(args) ==
  FileCmds("openmodel", args.ifcFiles)
  \o FileCmds("openclassification", OrEmpty(args.classifications))
  \o <<FileCmd("savemodel", args.outputSmc), Cmd("exit")>>

CreateModelHandler(args, env) ==
  IF args.ifcFiles = UndefinedList THEN Thrown("solibri_create_model")
  ELSE RunJob("solibri_create_model", CreateModelCommands(args), env, <<args.outputSmc>>)

\* outputSmc || smcPath
OrElse(a, b) == IF Truthy(a) THEN a ELSE b

UpdateModelCommands(args) ==
  <<FileCmd("openmodel", args.smcPath)>>
  \o FileCmds("updatemodel", args.ifcFiles)
  \o <<FileCmd("savemodel", OrElse(args.outputSmc, args.smcPath)), Cmd("exit")>>

UpdateModelHandler(args, env) ==
  IF args.ifcFiles = UndefinedList THEN Thrown("solibri_update_model")
  ELSE RunJob("solibri_update_model", UpdateModelCommands(args), env,
              <<OrElse(args.outputSmc, args.smcPath)>>)

\* restClient.ping().catch(() => null)
OrNull(outcome) == IF outcome.ok THEN outcome.value ELSE Null

\* !!ping
NotNot(v) == IF v # Null /\ v # Undefined /\ v # <<>> THEN <<"true">> ELSE <<"false">>

StatusHandler(env) ==
  Returned("solibri_status", FALSE,
           <<NotNot(OrNull(env.ping)), OrNull(env.about), OrNull(env.status)>>,
           FALSE, <<>>)

\* the TOOLS array, in its order
ToolNames == <<"solibri_list_assets", "solibri_check_model",
               "solibri_quantity_takeoff", "solibri_create_model",
               "solibri_update_model", "solibri_status">>

\* TOOLS.find((t) => t.name === name): index of the tool, 0 for undefined
Find(name) ==
  IF \E i \in 1 .. Len(ToolNames) : ToolNames[i] = name
  THEN CHOOSE i \in 1 .. Len(ToolNames) :
         ToolNames[i] = name /\ \A k \in 1 .. i - 1 : ToolNames[k] # name
  ELSE 0

\* tool.handler(args) of the i-th tool
Handler(i, args, env) ==
  IF i = 1 THEN ListAssetsHandler(args, env)
  ELSE IF i = 2 THEN CheckModelHandler(args, env)
  ELSE IF i = 3 THEN TakeoffHandler(args, env)
  ELSE IF i = 4 THEN CreateModelHandler(args, env)
  ELSE IF i = 5 THEN UpdateModelHandler(args, env)
  ELSE StatusHandler(env)

\* return { error: { code: -32601, message } }
NotFound == [kind |-> "return", tool |-> "none", isError |-> FALSE,
             text |-> << <<"error">> >>, called |-> FALSE, commands |-> <<>>,
             code |-> -32601]

\* the other methods answer a fixed result
Fixed(method) == [kind |-> "return", tool |-> "none", isError |-> FALSE,
                  text |-> << <<method>> >>, called |-> FALSE, commands |-> <<>>,
                  code |-> 0]

FixedMethods == {"initialize", "tools/list", "resources/list", "prompts/list"}

\* server.fallbackRequestHandler = async (request) => ...
FallbackRequestHandler(method, name, args, env) ==
  IF method \in FixedMethods THEN Fixed(method)
  ELSE IF method = "tools/call" THEN
    LET tool == Find(name)
    IN  IF tool # 0
        THEN LET out == Handler(tool, args, env)
             IN  IF out.kind = "throw"
                 THEN Returned(out.tool, TRUE, << <<"Error">>, <<"exception">> >>,
                               out.called, out.commands)
                 ELSE out
        ELSE NotFound
  ELSE NotFound

(***************************************************************************)
(* Inputs of the tool model.                                               *)
(***************************************************************************)
Opt(v) == {Undefined, v}
OptList(v) == {UndefinedList, v}

ArgsOf(name) ==
  IF name = "solibri_list_assets"
  THEN {[NoArgs EXCEPT !.type = t] : t \in {Undefined, <<"rulesets">>, <<"bogus">>}}
  ELSE IF name = "solibri_check_model"
  THEN {[NoArgs EXCEPT !.modelPath = m, !.rulesets = r, !.classifications = c,
                       !.outputBcf = b, !.outputSmc = o] :
          m \in Opt(<<"m">>), r \in {UndefinedList, <<>>, << <<"r">> >>},
          c \in OptList(<< <<"c">> >>), b \in Opt(<<"b">>), o \in Opt(<<"o">>)}
  ELSE IF name = "solibri_quantity_takeoff"
  THEN {[NoArgs EXCEPT !.modelPath = m, !.itoFile = i, !.outputExcel = x,
                       !.templateFile = t, !.itoName = n, !.title = l] :
          m \in Opt(<<"m">>), i \in Opt(<<"i">>), x \in Opt(<<"x">>),
          t \in Opt(<<"t">>), n \in Opt(<<"n">>), l \in Opt(<<"l">>)}
  ELSE IF name = "solibri_create_model"
  THEN {[NoArgs EXCEPT !.ifcFiles = f, !.outputSmc = o, !.classifications = c] :
          f \in {UndefinedList, << <<"f">> >>, << <<"f">>, <<"g">> >>},
          o \in Opt(<<"o">>), c \in OptList(<< <<"c">> >>)}
  ELSE IF name = "solibri_update_model"
  THEN {[NoArgs EXCEPT !.smcPath = p, !.ifcFiles = f, !.outputSmc = o] :
          p \in Opt(<<"p">>), f \in OptList(<< <<"f">> >>), o \in Opt(<<"o">>)}
  ELSE {NoArgs}

JobOutcomes == {Success(1, 0, <<>>, <<>>), ExitError(1, <<>>, <<"e">>),
                TimeoutError, StartError, Exception}
Failed == [ok |-> FALSE, value |-> Null]
Answered(v) == [ok |-> TRUE, value |-> v]
PingOutcomes == {Failed, Answered(<<"pong">>), Answered(<<>>)}
InfoOutcomes == {Failed, Answered(<<"info">>)}

QuietEnv == [job |-> Success(1, 0, <<>>, <<>>), fsFault |-> FALSE,
             ping |-> Failed, about |-> Failed, status |-> Failed]

EnvsOf(name) ==
  IF name = "solibri_list_assets"
  THEN {[QuietEnv EXCEPT !.fsFault = f] : f \in BOOLEAN}
  ELSE IF name = "solibri_status"
  THEN {[QuietEnv EXCEPT !.ping = p, !.about = a, !.status = t] :
          p \in PingOutcomes, a \in InfoOutcomes, t \in InfoOutcomes}
  ELSE IF name \in {"solibri_nope", "undefined"} THEN {QuietEnv}
  ELSE {[QuietEnv EXCEPT !.job = j] : j \in JobOutcomes}

RequestNames == {ToolNames[i] : i \in 1 .. Len(ToolNames)} \cup {"solibri_nope", "undefined"}

NoCall == [made |-> FALSE, method |-> "none", name |-> "undefined", args |-> NoArgs,
           env |-> QuietEnv, handler |-> Fixed("none"), response |-> Fixed("none")]

\* one 'tools/call' request, answered; a request is answered from its own
\* arguments alone, so a behaviour follows one request
CallTool(name, args, env) ==
  /\ ~toolCall.made
  /\ toolCall' = [made |-> TRUE, method |-> "tools/call", name |-> name,
                  args |-> args, env |-> env,
                  handler |-> IF Find(name) # 0 THEN Handler(Find(name), args, env)
                              ELSE Fixed("none"),
                  response |-> FallbackRequestHandler("tools/call", name, args, env)]
  /\ UNCHANGED <<jobVars, sessionVars, rendered, escaped, wait, proxy>>

\* a request of another method, answered
CallMethod(method) ==
  /\ ~toolCall.made
  /\ toolCall' = [made |-> TRUE, method |-> method, name |-> "undefined",
                  args |-> NoArgs, env |-> QuietEnv, handler |-> Fixed("none"),
                  response |-> FallbackRequestHandler(method, "undefined", NoArgs, QuietEnv)]
  /\ UNCHANGED <<jobVars, sessionVars, rendered, escaped, wait, proxy>>

ToolNext ==
  \/ \E name \in RequestNames : \E args \in ArgsOf(name), env \in EnvsOf(name) :
       CallTool(name, args, env)
  \/ \E method \in FixedMethods \cup {"ping"} : CallMethod(method)

(***************************************************************************)
(* generateXml as a function of its argument: one command, alone or        *)
(* followed by exit, with its fields drawn from TextValues.                *)
(***************************************************************************)
TextValues == {Undefined, <<>>, <<"a">>, <<"&", "<">>, <<"\"", ">">>, <<"'">>,
               <<"\"", " ", "v", "=", "\"">>}
CmdTypes == FileTags \cup BareTags \cup {"takeoff", "itoreport", "bcfreport",
                                         "autocomment", "unknown"}

CommandsOf(type) ==
  IF type \in FileTags THEN {[Cmd(type) EXCEPT !.file = f] : f \in TextValues}
  ELSE IF type = "takeoff" THEN {[Cmd(type) EXCEPT !.name = n] : n \in TextValues}
  ELSE IF type = "itoreport"
  THEN {[Cmd(type) EXCEPT !.file = f, !.templatefile = t, !.title = l, !.name = n] :
          f \in TextValues, t \in TextValues, l \in TextValues, n \in TextValues}
  ELSE IF type = "bcfreport"
  THEN {[Cmd(type) EXCEPT !.file = f, !.version = v] :
          f \in TextValues, v \in TextValues}
  ELSE IF type = "autocomment"
  THEN {[Cmd(type) EXCEPT !.snapshots = b] : b \in {Undefined, <<"true">>, <<"false">>}}
  ELSE {Cmd(type)}

\* generateXml(commands), called once
Render(commands) ==
  /\ ~rendered.made
  /\ rendered' = [made |-> TRUE, commands |-> commands,
                  script |-> GenerateXml(commands)]
  /\ UNCHANGED <<jobVars, sessionVars, toolCall, escaped, wait, proxy>>

RenderNext ==
  \E type \in CmdTypes : \E cmd \in CommandsOf(type) :
    \/ Render(<<cmd>>)
    \/ Render(<<cmd, Cmd("exit")>>)
    \/ Render(<<Cmd("unknown"), cmd, Cmd("check")>>)

(***************************************************************************)
(* escapeXml as a function of its argument: strings put together from at   *)
(* most MaxPieces pieces, the five metacharacters, ordinary characters and *)
(* entity text among them.                                                 *)
(***************************************************************************)
Pieces == { <<"&">>, <<"<">>, <<">">>, <<"\"">>, <<"'">>, <<"a">>, <<";">>,
            <<"&", "a", "m", "p", ";">>, <<"&", "l", "t", ";">>,
            <<"a", "m", "p", ";">> }

RECURSIVE Strings(_)
Strings(n) ==
  IF n = 0 THEN {<<>>}
  ELSE Strings(n - 1) \cup {p \o str : p \in Pieces, str \in Strings(n - 1)}

\* escapeXml(str), called once
Escape(str) ==
  /\ ~escaped.made
  /\ escaped' = [made |-> TRUE, input |-> str, output |-> EscapeXml(str)]
  /\ UNCHANGED <<jobVars, sessionVars, toolCall, rendered, wait, proxy>>

EscapeNext == \E str \in Strings(MaxPieces) : Escape(str)

(***************************************************************************)
(* waitUntilIdle (rest-client.js).  now is the clock Date.now() reads; it  *)
(* moves while the call awaits: by the time a status request takes to      *)
(* answer and by the poll interval of the setTimeout.                      *)
(***************************************************************************)
NotCalled == [pc |-> "none", now |-> 0, start |-> 0, timeoutMs |-> 0,
              pollIntervalMs |-> 0, polls |-> 0, latency |-> 0, answer |-> "none",
              answeredAt |-> 0, allBusy |-> TRUE]

\* Date.now() - start <= timeoutMs
WithinDeadlineInclusive(now, start, timeoutMs) == now - start <= timeoutMs

\* Date.now() - start < timeoutMs
WithinDeadline(now, start, timeoutMs) == now - start < timeoutMs

\* const start = Date.now()
WaitUntilIdle(timeoutMs, pollIntervalMs) ==
  /\ wait.pc = "none"
  /\ wait' = [NotCalled EXCEPT !.pc = "while", !.timeoutMs = timeoutMs,
                               !.pollIntervalMs = pollIntervalMs]
  /\ UNCHANGED <<jobVars, sessionVars, toolCall, rendered, escaped, proxy>>

\* while (Date.now() - start < timeoutMs) ... throw new Error(...)
LoopTest ==
  /\ wait.pc = "while"
  /\ wait' = [wait EXCEPT !.pc = IF WithinDeadline(wait.now, wait.start, wait.timeoutMs)
                                 THEN "isBusy" ELSE "thrown"]
  /\ UNCHANGED <<jobVars, sessionVars, toolCall, rendered, escaped, proxy>>

\* const busy = await isBusy(); if (!busy) return true: the status request
\* answers after latency with busy, with anything else, or fails
StatusAnswer(latency, answer) ==
  /\ wait.pc = "isBusy"
  /\ wait' = [wait EXCEPT !.now = @ + latency, !.latency = latency,
                          !.polls = @ + 1, !.answer = answer,
                          !.answeredAt = wait.now + latency,
                          !.allBusy = @ /\ answer = "busy",
                          !.pc = IF answer = "busy" THEN "sleep"
                                 ELSE IF answer = "idle" THEN "returned"
                                 ELSE "failed"]
  /\ UNCHANGED <<jobVars, sessionVars, toolCall, rendered, escaped, proxy>>

\* await new Promise(resolve => setTimeout(resolve, pollIntervalMs))
Wake ==
  /\ wait.pc = "sleep"
  /\ wait' = [wait EXCEPT !.now = @ + wait.pollIntervalMs, !.pc = "while"]
  /\ UNCHANGED <<jobVars, sessionVars, toolCall, rendered, escaped, proxy>>

WaitNext ==
  \/ \E timeoutMs \in 0 .. MaxTimeout, pollIntervalMs \in 1 .. MaxInterval :
       WaitUntilIdle(timeoutMs, pollIntervalMs)
  \/ LoopTest
  \/ \E latency \in 0 .. MaxLatency, answer \in {"busy", "idle", "error"} :
       StatusAnswer(latency, answer)
  \/ Wake

(***************************************************************************)
(* request (rest-client.js).  How fetch ends is an input: it throws with   *)
(* a cause code (or none), or it answers with a status, a content type and *)
(* a body that parses as JSON or does not.                                 *)
(***************************************************************************)
Causes == {"ECONNREFUSED", "ENOTFOUND", "ETIMEDOUT", "ECONNRESET", "none"}
Statuses == {200, 204, 404, 500, 503}
ContentTypes == {"application/json", "text/plain", "none"}

FetchThrows(cause) ==
  [kind |-> "throw", cause |-> cause, status |-> 0, contentType |-> "none",
   parses |-> FALSE]
FetchAnswers(status, contentType, parses) ==
  [kind |-> "response", cause |-> "none", status |-> status,
   contentType |-> contentType, parses |-> parses]

FetchOutcomes ==
  {FetchThrows(c) : c \in Causes}
  \cup {FetchAnswers(st, ct, ok) : st \in Statuses, ct \in ContentTypes, ok \in BOOLEAN}

Error(name, cause) == [kind |-> "throw", name |-> name, cause |-> cause]
Value(form) == [kind |-> "return", name |-> form, cause |-> "none"]

\* the body of the try block
TryRequest(fetched) ==
  IF fetched.kind = "throw" THEN Error("fetch failed", fetched.cause)
  ELSE IF ~(fetched.status \in 200 .. 299) THEN Error("Solibri API error", "none")
  ELSE IF fetched.contentType = "application/json"
  THEN (IF fetched.parses THEN Value("json") ELSE Error("SyntaxError", "none"))
  ELSE Value("text")

\* a catch block that takes every cause code for a refused connection
CatchAnyCause(error) ==
  IF error.cause # "none"
  THEN Error("Solibri is not running or REST API is not enabled", "none")
  ELSE error

\* catch (error) { if (error.cause?.code === 'ECONNREFUSED') throw new Error(...); throw error }
Catch(error) ==
  IF error.cause = "ECONNREFUSED"
  THEN Error("Solibri is not running or REST API is not enabled", "none")
  ELSE error

\* request(endpoint), called once
Request(endpoint, fetched) ==
  /\ ~proxy.made
  /\ proxy' = [made |-> TRUE, endpoint |-> endpoint, fetched |-> fetched,
               result |-> LET out == TryRequest(fetched)
                          IN  IF out.kind = "throw" THEN Catch(out) ELSE out]
  /\ UNCHANGED <<jobVars, sessionVars, toolCall, rendered, escaped, wait>>

RequestNext ==
  \E endpoint \in {"/ping", "/about", "/status"}, fetched \in FetchOutcomes :
    Request(endpoint, fetched)

PureInit ==
  /\ toolCall = NoCall
  /\ rendered = [made |-> FALSE, commands |-> <<>>, script |-> <<>>]
  /\ escaped = [made |-> FALSE, input |-> <<>>, output |-> <<>>]
  /\ wait = NotCalled
  /\ proxy = [made |-> FALSE, endpoint |-> "none", fetched |-> FetchThrows("none"),
              result |-> Value("none")]

\* invocations running while one client connects and disconnects
CancelNext ==
  \/ \E j \in Jobs : CancelStep(j)
  \/ nextSession = 0 /\ Connect(1, <<"Bearer ", AuthToken>>)
  \/ \E s \in Sessions : Disconnect(s)

\* the client that opens the n-th connection
ClientOf(n) == ((n - 1) % NumClients) + 1

\* authenticated requests only: clients take turns to connect, any session
\* disconnects, the client of any session posts a follow-up request
OrderNext ==
  \/ Connect(ClientOf(nextSession + 1), <<"Bearer ", AuthToken>>)
  \/ \E s \in Sessions : Disconnect(s)
  \/ \E s \in Sessions : Post(s, <<"Bearer ", AuthToken>>)

\* the same requests, followed up to the first follow-up request
AuthNext ==
  \/ \E c \in Clients, h \in Headers :
       (nextSession < MaxSessions \/ Authenticate(h) # 0) /\ Connect(c, h)
  \/ \E s \in Sessions : Disconnect(s)
  \/ \E s \in Sessions, h \in Headers : posts = <<>> /\ Post(s, h)

Init == JobInit /\ SessionInit /\ PureInit

JobSpec == Init /\ [][JobNext]_vars
ConcSpec == Init /\ [][ConcNext]_vars
SessionSpec == Init /\ [][SessionNext]_vars
AuthSpec == Init /\ [][AuthNext]_vars
ToolSpec == Init /\ [][ToolNext]_vars
RenderSpec == Init /\ [][RenderNext]_vars
EscapeSpec == Init /\ [][EscapeNext]_vars
WaitSpec == Init /\ [][WaitNext]_vars
RequestSpec == Init /\ [][RequestNext]_vars
CancelSpec == Init /\ [][CancelNext]_vars
OrderSpec == Init /\ [][OrderNext]_vars

\* the event loop runs a due timer and delivers pending process events; the
\* operating system ends a process that does not handle the SIGTERM it got.
\* Nothing makes a process exit on its own.
FairJobSpec ==
  /\ JobSpec
  /\ WF_vars(TimerFire(1))
  /\ WF_vars(ErrorEvent(1))
  /\ WF_vars(ProcKilled(1))
  /\ WF_vars(\E unlinkOk \in BOOLEAN : CloseEvent(1, unlinkOk))

(***************************************************************************)
(* Properties.                                                             *)
(***************************************************************************)
\* the outcome the handler of a terminal event asks for
KindOf(event) ==
  IF event[1] = "timeout" THEN "timeout"
  ELSE IF event[1] = "error" THEN "start"
  ELSE IF event[2] = 0 THEN "success" ELSE "exit"

FirstEvent(j) == IF events[j] = <<>> THEN <<"none", 0>> ELSE Head(events[j])

RECURSIVE StreamText(_, _)
\* the chunks of one stream in a log of received chunks, joined in order
StreamText(log, stream) ==
  IF log = <<>> THEN <<>>
  ELSE (IF Head(log)[1] = stream THEN Head(log)[2] ELSE <<>>)
       \o StreamText(Tail(log), stream)

ScriptOf(j) == IF jobId[j] = NoJobId THEN NoFile ELSE files[XmlPath(jobId[j])]

\* C1: a job's result is settled once: the first terminal event (close with
\* code 0, close with another code, spawn error, timeout) decides the kind of
\* the result, and no later event of the job changes a settled result.
C1_SettledOnce ==
  /\ [](\A j \in Jobs :
          IF events[j] = <<>> THEN result[j].kind \in {"none", "exception"}
          ELSE result[j].kind = KindOf(Head(events[j])))
  /\ [][\A j \in Jobs : Settled(j) => result'[j] = result[j]]_vars

\* a close event arrived after the job had settled as a launch error
C1_Witness ==
  \E j \in Jobs : /\ Len(events[j]) = 2
                  /\ events[j][2][1] = "close"
                  /\ result[j].kind = "start"

\* C2: when the timeout expires before the process has closed, the process is
\* sent SIGTERM and the job is rejected with the timeout error; a close event
\* that follows, with any code, leaves that result as it is.
C2_TimeoutSettles ==
  \A j \in Jobs :
    FirstEvent(j)[1] = "timeout" => /\ result[j] = TimeoutError
                                    /\ kills[j] = 1
                                    /\ timer[j] = "fired"

\* the timer fired first and the process closed afterwards with code 0
C2_Witness ==
  \E j \in Jobs : events[j] = << <<"timeout", 0>>, <<"close", 0>> >>

\* C3: with keepXmlFiles off, a settled job (success, failure exit, launch
\* error or timeout) has no script file left, whenever unlinkSync did not throw.
C3_ScriptReleased ==
  \A j \in Jobs :
    (/\ ~keepXmlFiles
     /\ result[j].kind \in {"success", "exit", "start", "timeout"}
     /\ ~unlinkFailed[j])
    => ScriptOf(j) = NoFile

\* C4: a job that settled as timeout has its process ended eventually, also
\* when the process does not react to SIGTERM.
C4_ProcessEnded ==
  \A j \in Jobs : (result[j].kind = "timeout") ~> (procState[j] # "running")

\* C5: a follow-up request handed to a transport is handed to a session of the
\* client that sent it.
C5_RoutedToOwner ==
  \A i \in 1 .. Len(posts) :
    posts[i].to # NoSession => owner[posts[i].to] = posts[i].sender

\* C6: a disconnected session is not in the registry, and no follow-up request
\* is handed to the transport of a disconnected session (both entrypoints).
C6_RemovedOnDisconnect ==
  /\ \A i \in 1 .. Len(transports) : transports[i] \in open
  /\ \A i \in 1 .. Len(posts) : posts[i].to # NoSession => posts[i].live

\* everything invocation j owns
JobView(j) ==
  <<jobId[j], result[j], procState[j], exitCode[j], sigPending[j], kills[j],
    stdout[j], stderr[j], timer[j], events[j], ScriptOf(j)>>

\* C7: overlapping invocations have different job ids and script paths, and no
\* event of one of them (timeout, kill, exit, script deletion, output) changes
\* the result, process, buffers, timer or script file of another.
C7_Independent ==
  /\ [](\A j, k \in Jobs :
          (j # k /\ jobId[j] # NoJobId /\ jobId[k] # NoJobId)
          => (jobId[j] # jobId[k] /\ XmlPath(jobId[j]) # XmlPath(jobId[k])))
  /\ [][\A j, k \in Jobs :
          j # k => (JobView(j)' = JobView(j) \/ JobView(k)' = JobView(k))]_vars

\* one job timed out, was killed and lost its script while another one is
\* still running with its script in place
C7_Witness ==
  \E j, k \in Jobs :
    /\ j # k
    /\ ~keepXmlFiles
    /\ result[j].kind = "timeout" /\ procState[j] = "closed"
    /\ ScriptOf(j) = NoFile
    /\ procState[k] = "running" /\ ScriptOf(k) = xml[k]
    /\ stdout[k] # <<>>

\* C8: a process that closes with code 0 before the timeout expires resolves
\* the job with success, the timer is cancelled, and the result carries every
\* stdout and stderr chunk received up to the close, joined in arrival order.
C8_SuccessKeepsOutput ==
  \A j \in Jobs :
    FirstEvent(j) = <<"close", 0>>
    => /\ result[j] = Success(jobId[j], 0, StreamText(received[j], "stdout"),
                              StreamText(received[j], "stderr"))
       /\ timer[j] = "cleared"

\* a successful job that received two stdout chunks
C8_Witness ==
  \E j \in Jobs : /\ result[j].kind = "success"
                  /\ Len(received[j]) = 2
                  /\ Len(result[j].stdout) = 2

\* C9: a process that closes with a non-zero code before the timeout expires
\* rejects the job with a failure that carries the code and the captured
\* stderr, or the captured stdout when no stderr was captured; the timer is
\* cancelled.
C9_FailureCarriesCode ==
  \A j \in Jobs :
    (FirstEvent(j)[1] = "close" /\ FirstEvent(j)[2] # 0)
    => LET out == StreamText(received[j], "stdout")
           err == StreamText(received[j], "stderr")
       IN  /\ result[j].state = "rejected"
           /\ result[j].kind = "exit"
           /\ result[j].code = FirstEvent(j)[2]
           /\ err # <<>> => result[j].detail = err
           /\ err = <<>> => result[j].detail = out
           /\ timer[j] = "cleared"

\* a failed job with both streams captured, and stdout differing from stderr
C9_Witness ==
  \E j \in Jobs : /\ result[j].kind = "exit"
                  /\ stdout[j] # <<>> /\ stderr[j] # <<>>
                  /\ stdout[j] # stderr[j]

\* C10: when the spawn error is the first terminal event, the job is rejected
\* with the launch error and the timer is cancelled: it never fires, no
\* SIGTERM is sent and no timeout result is produced.
C10_LaunchErrorStopsTimer ==
  \A j \in Jobs :
    FirstEvent(j)[1] = "error"
    => /\ result[j] = StartError
       /\ timer[j] = "cleared"
       /\ kills[j] = 0
       /\ \A i \in 1 .. Len(events[j]) : events[j][i][1] # "timeout"

\* the launch failed and the error handler has run
C10_Witness ==
  \E j \in Jobs : /\ FirstEvent(j)[1] = "error"
                  /\ procState[j] = "errored"
                  /\ result[j].kind = "start"

\* C11: an exception of fs.unlinkSync in the close handler is swallowed: the
\* job settles as it does when the deletion succeeds, success for code 0 and
\* the failure with that code otherwise.
C11_CleanupFailureSwallowed ==
  \A j \in Jobs :
    (unlinkFailed[j] /\ FirstEvent(j)[1] = "close")
    => result[j] = IF FirstEvent(j)[2] = 0
                   THEN Success(jobId[j], 0, stdout[j], stderr[j])
                   ELSE ExitError(FirstEvent(j)[2], stdout[j], stderr[j])

\* the deletion threw, the script is still there and the job succeeded
C11_Witness ==
  \E j \in Jobs : /\ unlinkFailed[j]
                  /\ ScriptOf(j) # NoFile
                  /\ result[j].kind = "success"

\* C12: no stdout or stderr chunk is received into the buffers of a job that
\* has settled (a job's events are launch, then chunks, then one terminal
\* event).
C12_NoChunkAfterSettle ==
  [][\A j \in Jobs : Settled(j) => received'[j] = received[j]]_vars

\* what the endpoints owe a request with this Authorization header
HasBearer(h) == h # NoHeader /\ h[1] = "Bearer "
GoodToken(h) == HasBearer(h) /\ h[2] = AuthToken
Owed(h) == IF ~HasBearer(h) THEN 401 ELSE IF ~GoodToken(h) THEN 403 ELSE 0

\* C13: a request to /sse or /messages without a 'Bearer ' header is answered
\* 401, one with another token than the configured one 403, and such a request
\* registers no session and is handed to no session.
C13_RejectedBeforeHandling ==
  /\ [](/\ lastGet.made => lastGet.answer = Owed(lastGet.auth)
        /\ ~GoodToken(lastGet.auth) => lastGet.session = NoSession
        /\ \A i \in 1 .. Len(posts) :
             ~GoodToken(posts[i].auth)
             => (posts[i].answer = Owed(posts[i].auth) /\ posts[i].to = NoSession))
  /\ [][~GoodToken(lastGet'.auth) /\ lastGet' # lastGet
        => (transports' = transports /\ nextSession' = nextSession /\ open' = open)]_vars

\* a follow-up request with a wrong token was refused while a session was
\* registered, after a request to /sse without a header had been refused
C13_Witness ==
  /\ lastGet.answer = 401
  /\ \E i \in 1 .. Len(posts) : /\ posts[i].answer = 403
                                /\ posts[i].registry # <<>>

\* C14: an authenticated follow-up request that arrives when no connection is
\* open (none was opened, or all have disconnected) is answered 400 and handed
\* to no session.
C14_NoSessionBadRequest ==
  \A i \in 1 .. Len(posts) :
    (GoodToken(posts[i].auth) /\ posts[i].nopen = 0)
    => (posts[i].answer = 400 /\ posts[i].to = NoSession)

TextFields == {"file", "name", "templatefile", "title", "version"}

FieldOf(cmd, f) ==
  IF f = "file" THEN cmd.file
  ELSE IF f = "name" THEN cmd.name
  ELSE IF f = "templatefile" THEN cmd.templatefile
  ELSE IF f = "title" THEN cmd.title
  ELSE cmd.version

\* the command writes field f into its line
Interpolated(cmd, f) ==
  IF cmd.type \in FileTags THEN f = "file"
  ELSE IF cmd.type = "takeoff" THEN f = "name" /\ Truthy(cmd.name)
  ELSE IF cmd.type = "itoreport"
  THEN f = "file" \/ (f \in {"templatefile", "title", "name"} /\ Truthy(FieldOf(cmd, f)))
  ELSE IF cmd.type = "bcfreport"
  THEN f = "file" \/ (f = "version" /\ Truthy(cmd.version))
  ELSE FALSE

\* the piece of template that opens the attribute of field f
OpenToken(type, f) ==
  IF type \in FileTags THEN " file=\""
  ELSE IF type = "takeoff" THEN "  <takeoff name=\""
  ELSE IF f = "file" THEN "file=\""
  ELSE IF f = "templatefile" THEN " templatefile=\""
  ELSE IF f = "title" THEN " title=\""
  ELSE IF f = "name" THEN " name=\""
  ELSE " version=\""

\* tokens that begin with a quote character
QuoteTokens == {"\"", "\" />"}

RECURSIVE After(_, _)
\* what follows the first occurrence of token in line
After(line, token) ==
  IF line = <<>> THEN <<>>
  ELSE IF Head(line) = token THEN Tail(line)
  ELSE After(Tail(line), token)

RECURSIVE UpToQuote(_)
UpToQuote(str) ==
  IF str = <<>> \/ Head(str) \in QuoteTokens THEN <<>>
  ELSE <<Head(str)>> \o UpToQuote(Tail(str))

\* the value of the attribute as a reader of the line sees it
ReadAttr(line, token) == UpToQuote(After(line, token))

Entities == { <<"&", "a", "m", "p", ";">>, <<"&", "l", "t", ";">>,
              <<"&", "g", "t", ";">>, <<"&", "q", "u", "o", "t", ";">>,
              <<"&", "a", "p", "o", "s", ";">> }

EntityChar(e) ==
  IF e = <<"&", "a", "m", "p", ";">> THEN "&"
  ELSE IF e = <<"&", "l", "t", ";">> THEN "<"
  ELSE IF e = <<"&", "g", "t", ";">> THEN ">"
  ELSE IF e = <<"&", "q", "u", "o", "t", ";">> THEN "\""
  ELSE "'"

StartsWith(str, e) == Len(str) >= Len(e) /\ SubSeq(str, 1, Len(e)) = e

RECURSIVE WellEscaped(_)
\* no bare & < > " ' in str
WellEscaped(str) ==
  IF str = <<>> THEN TRUE
  ELSE IF Head(str) \in {"<", ">", "\"", "'"} THEN FALSE
  ELSE IF Head(str) = "&"
  THEN \E e \in Entities :
         StartsWith(str, e) /\ WellEscaped(SubSeq(str, Len(e) + 1, Len(str)))
  ELSE WellEscaped(Tail(str))

RECURSIVE Unescape(_)
\* the text a well escaped value stands for
Unescape(str) ==
  IF str = <<>> THEN <<>>
  ELSE IF \E e \in Entities : StartsWith(str, e)
  THEN LET e == CHOOSE x \in Entities : StartsWith(str, x)
       IN  <<EntityChar(e)>> \o Unescape(SubSeq(str, Len(e) + 1, Len(str)))
  ELSE <<Head(str)>> \o Unescape(Tail(str))

\* field f of the first command reads back from its line as it was given
ReadsBack(f) ==
  LET cmd == rendered.commands[1]
      v   == ReadAttr(rendered.script[3], OpenToken(cmd.type, f))
  IN  /\ WellEscaped(v)
      /\ Unescape(v) = (IF Truthy(FieldOf(cmd, f)) THEN FieldOf(cmd, f) ELSE <<>>)

(***************************************************************************)
(* Reading an element back: its tag and the names of its attributes, in    *)
(* the order they stand.  Outside an attribute value a reader takes        *)
(* ` v="` for the opening of an attribute v, and anything else that is not *)
(* part of the template for stray text.                                    *)
(***************************************************************************)
Known(cmd) == cmd.type \in CmdTypes \ {"unknown"}

\* the lines between <autorun> and </autorun>
Elements(script) == SubSeq(script, 3, Len(script) - 1)

TagOf(line) ==
  IF line[1] = "  <" THEN line[2]
  ELSE IF line[1] \in {"  <takeoff name=\"", "  <takeoff />"} THEN "takeoff"
  ELSE IF line[1] = "  <itoreport " THEN "itoreport"
  ELSE IF line[1] = "  <bcfreport " THEN "bcfreport"
  ELSE IF line[1] = "  <autocomment" THEN "autocomment"
  ELSE "none"

\* pieces of template that open an attribute, and the attribute they open
AttrOpenings == {" file=\"", "file=\"", "  <takeoff name=\"", " templatefile=\"",
                 " title=\"", " name=\"", " version=\"", " snapshots=\""}

AttrNameOf(token) ==
  IF token \in {" file=\"", "file=\""} THEN "file"
  ELSE IF token \in {"  <takeoff name=\"", " name=\""} THEN "name"
  ELSE IF token = " templatefile=\"" THEN "templatefile"
  ELSE IF token = " title=\"" THEN "title"
  ELSE IF token = " version=\"" THEN "version"
  ELSE "snapshots"

\* pieces of template that stand outside attribute values
Markup == {"  <", " />", "  <takeoff />", "  <itoreport ", "  <bcfreport ",
           "  <autocomment"} \cup FileTags \cup BareTags

RECURSIVE AttrNames(_, _)
AttrNames(toks, inValue) ==
  IF toks = <<>> THEN <<>>
  ELSE IF inValue
  THEN AttrNames(Tail(toks), Head(toks) \notin QuoteTokens)
  ELSE IF Head(toks) \in AttrOpenings
  THEN <<AttrNameOf(Head(toks))>> \o AttrNames(Tail(toks), TRUE)
  ELSE IF Head(toks) \in Markup THEN AttrNames(Tail(toks), FALSE)
  ELSE IF Len(toks) >= 4 /\ toks[1] = " " /\ toks[3] = "=" /\ toks[4] = "\""
  THEN <<toks[2]>> \o AttrNames(SubSeq(toks, 5, Len(toks)), TRUE)
  ELSE <<"stray">> \o AttrNames(Tail(toks), FALSE)

\* how often name stands in names
Count(names, name) == Cardinality({i \in 1 .. Len(names) : names[i] = name})

OptionalFields(type) ==
  IF type = "takeoff" THEN {"name"}
  ELSE IF type = "itoreport" THEN {"templatefile", "title", "name"}
  ELSE IF type = "bcfreport" THEN {"version"}
  ELSE IF type = "autocomment" THEN {"snapshots"}
  ELSE {}

\* the operation carries the field
Present(cmd, f) ==
  IF f = "snapshots" THEN cmd.snapshots # Undefined ELSE Truthy(FieldOf(cmd, f))

\* the attributes an operation is to have
Stated(cmd) ==
  {f \in TextFields : Interpolated(cmd, f)}
  \cup (IF cmd.type = "autocomment" /\ Present(cmd, "snapshots") THEN {"snapshots"} ELSE {})

\* the request named a tool of the dispatch table
Dispatched == toolCall.made /\ toolCall.method = "tools/call" /\ Find(toolCall.name) # 0

\* the call under the handler failed: the job was rejected, a proxy call
\* failed, listing the directory or building the command list threw
UnderlyingFault(name, args, env) ==
  IF name = "solibri_list_assets" THEN args.type \in ValidTypes /\ env.fsFault
  ELSE IF name = "solibri_check_model"
  THEN args.rulesets = UndefinedList \/ env.job.state # "resolved"
  ELSE IF name = "solibri_quantity_takeoff" THEN env.job.state # "resolved"
  ELSE IF name \in {"solibri_create_model", "solibri_update_model"}
  THEN args.ifcFiles = UndefinedList \/ env.job.state # "resolved"
  ELSE ~env.ping.ok \/ ~env.about.ok \/ ~env.status.ok

\* an argument that inputSchema.required names is absent (for type: not
\* one of the enum)
RequiredMissing(name, args) ==
  IF name = "solibri_list_assets" THEN args.type \notin ValidTypes
  ELSE IF name = "solibri_check_model"
  THEN args.modelPath = Undefined \/ args.rulesets = UndefinedList
  ELSE IF name = "solibri_quantity_takeoff"
  THEN args.modelPath = Undefined \/ args.itoFile = Undefined
       \/ args.outputExcel = Undefined
  ELSE IF name = "solibri_create_model"
  THEN args.ifcFiles = UndefinedList \/ args.outputSmc = Undefined
  ELSE IF name = "solibri_update_model"
  THEN args.smcPath = Undefined \/ args.ifcFiles = UndefinedList
  ELSE FALSE

\* C16: every tool handler is a fault boundary: whatever fails under it
\* (job rejection, proxy error, an exception while listing assets or while
\* building the command list), the handler itself returns an error-flagged
\* envelope and never throws to the protocol layer.
C16_HandlerIsFaultBoundary ==
  Dispatched =>
    /\ toolCall.handler.kind = "return"
    /\ UnderlyingFault(toolCall.name, toolCall.args, toolCall.env)
         => toolCall.handler.isError

\* C17: a tool call with a required argument missing is answered with an
\* error-flagged response, and no script is written and no process is
\* launched for it (executeAutorun is not called).
C17_MissingArgumentRejected ==
  (Dispatched /\ RequiredMissing(toolCall.name, toolCall.args)) =>
    /\ toolCall.response.isError
    /\ ~toolCall.response.called

\* C18: a call of a name outside the dispatch table is raised as a protocol
\* error with code -32601 and runs no handler; a call of a name in the table
\* runs exactly that tool's handler and returns what it returned, unchanged.
C18_DispatchByName ==
  (toolCall.made /\ toolCall.method = "tools/call") =>
    IF Find(toolCall.name) = 0
    THEN /\ toolCall.response.kind = "throw"
         /\ toolCall.response.code = -32601
         /\ toolCall.response.tool = "none"
         /\ ~toolCall.response.called
    ELSE /\ toolCall.response.tool = toolCall.name
         /\ toolCall.response = toolCall.handler

\* C19: whichever of ping, about and status fail, the status tool still
\* answers; the field of a failed call is null, the value of a successful
\* call is reported, and running is true exactly when ping succeeded.
C19_StatusToleratesFailures ==
  (Dispatched /\ toolCall.name = "solibri_status") =>
    LET env == toolCall.env
        out == toolCall.response
    IN  /\ out.kind = "return" /\ ~out.isError
        /\ out.text[1] = (IF env.ping.ok THEN <<"true">> ELSE <<"false">>)
        /\ out.text[2] = (IF env.about.ok THEN env.about.value ELSE Null)
        /\ out.text[3] = (IF env.status.ok THEN env.status.value ELSE Null)

\* C20: for every operation type and every textual field written into the
\* script (file, name, templatefile, title, version), the attribute value
\* holds no bare ampersand, angle bracket, quote or apostrophe and reads
\* back as the field: the field can neither close its attribute nor add an
\* element.
C20_FieldsEscaped ==
  rendered.made =>
    \A f \in TextFields : Interpolated(rendered.commands[1], f) => ReadsBack(f)

\* C21: escaping round-trips: for every string over the five metacharacters
\* and ordinary characters, entity text such as &amp; included, replacing
\* the entities of escapeXml(s) by their characters gives s again.
C21_EscapeRoundTrips ==
  escaped.made => Unescape(escaped.output) = escaped.input

C21_Witness ==
  /\ escaped.made
  /\ escaped.input = <<"&", "l", "t", ";", "<">>
  /\ escaped.output = <<"&", "a", "m", "p", ";", "l", "t", ";", "&", "l", "t", ";">>

\* C22: the script is the declaration and the root element wrapping one
\* element per operation of a known tag, in the order of the list, each with
\* its stated attributes and no others; an operation of an unknown tag adds
\* nothing and does not stop the operations after it.
C22_OneElementPerOperation ==
  rendered.made =>
    LET ops == SelectSeq(rendered.commands, Known)
        els == Elements(rendered.script)
    IN  /\ rendered.script[1] = <<"<?xml version=\"1.0\" encoding=\"UTF-8\"?>">>
        /\ rendered.script[2] = <<"<autorun>">>
        /\ rendered.script[Len(rendered.script)] = <<"</autorun>">>
        /\ Len(els) = Len(ops)
        /\ \A k \in 1 .. Len(ops) :
             /\ TagOf(els[k]) = ops[k].type
             /\ LET names == AttrNames(els[k], FALSE)
                IN  /\ {names[i] : i \in 1 .. Len(names)} = Stated(ops[k])
                    /\ \A f \in Stated(ops[k]) : Count(names, f) = 1

\* C23: an optional field the operation does not carry gives no attribute in
\* its element, and one it carries gives exactly one attribute.
C23_OptionalOmitted ==
  rendered.made =>
    LET cmd   == rendered.commands[1]
        names == AttrNames(rendered.script[3], FALSE)
    IN  \A f \in OptionalFields(cmd.type) :
          IF Present(cmd, f)
          THEN Len(names) = Cardinality(Stated(cmd)) /\ Count(names, f) = 1
          ELSE Count(names, f) = 0

\* C24 as stated: waitUntilIdle returns as soon as a poll reports not-busy,
\* and against a proxy that reports busy forever it raises the timeout error
\* no earlier than the deadline and no later than the deadline plus one poll
\* interval.
C24_TimeoutWithinOneInterval ==
  /\ wait.pc = "returned" => (wait.answer = "idle" /\ wait.now = wait.answeredAt)
  /\ wait.pc = "thrown" =>
       /\ wait.allBusy
       /\ wait.now >= wait.start + wait.timeoutMs
       /\ wait.now <= wait.start + wait.timeoutMs + wait.pollIntervalMs

\* C24, amended: the timeout error is raised no earlier than the deadline
\* and earlier than the deadline plus one poll interval plus the time the
\* last status request took to answer.
C24_TimeoutWithinIntervalAndPoll ==
  /\ wait.pc = "returned" => (wait.answer = "idle" /\ wait.now = wait.answeredAt)
  /\ wait.pc = "sleep" => wait.answer = "busy"
  /\ wait.pc = "thrown" =>
       /\ wait.allBusy
       /\ wait.now >= wait.start + wait.timeoutMs
       /\ wait.polls > 0 =>
            wait.now < wait.start + wait.timeoutMs + wait.pollIntervalMs + wait.latency
       /\ wait.polls = 0 => wait.now = wait.start + wait.timeoutMs

C24_Witness ==
  /\ wait.pc = "thrown"
  /\ wait.polls > 1
  /\ wait.now > wait.start + wait.timeoutMs + wait.pollIntervalMs

\* the error request throws for a refused connection
Unreachable == Error("Solibri is not running or REST API is not enabled", "none")

\* C25: a proxy call raises the 'not running' error exactly when the
\* connection was refused; any other failure (a status outside 2xx, another
\* transport failure, a body that does not parse) is thrown on as the error
\* it was, and a call that did not fail raises nothing.
C25_UnreachableOnlyWhenRefused ==
  proxy.made =>
    LET refused == proxy.fetched.kind = "throw" /\ proxy.fetched.cause = "ECONNREFUSED"
    IN  /\ (proxy.result = Unreachable) <=> refused
        /\ ~refused => proxy.result = TryRequest(proxy.fetched)

C25_Witness ==
  /\ proxy.made
  /\ proxy.fetched = FetchThrows("ECONNREFUSED")
  /\ proxy.result = Unreachable

C27_OnlyTimeoutCancels ==
  [][\A j \in Jobs :
       kills'[j] # kills[j] =>
         /\ timer[j] = "armed" /\ timer'[j] = "fired"
         /\ kills[j] = 0 /\ kills'[j] = 1
         /\ procState[j] \in {"running", "exited"}
         /\ open' = open /\ transports' = transports
         /\ \A k \in Jobs \ {j} : result'[k] = result[k] /\ procState'[k] = procState[k]]_vars

C27_Witness ==
  \E j, k \in Jobs :
    /\ procState[j] = "running" /\ kills[j] = 0
    /\ kills[k] = 1 /\ result[k] = TimeoutError
    /\ nextSession = 1 /\ open = {}

\* C28: with the retain-scripts flag set no event of a job (close with any
\* code, spawn error, timeout) deletes or rewrites its script: the file a job
\* wrote is still there with its rendered content after the job settles.
C28_RetainedScriptsKept ==
  keepXmlFiles =>
    \A j \in Jobs : procState[j] # "none" =>
      /\ xml[j] # NoFile
      /\ files[XmlPath(jobId[j])] = xml[j]

C28_Witness ==
  /\ keepXmlFiles
  /\ \E j \in Jobs :
       /\ procState[j] = "closed" /\ Settled(j)
       /\ Len(events[j]) = 2
       /\ files[XmlPath(jobId[j])] = GenerateXml(OpenCommands)

\* C29: a script is never deleted while its job's process is running: the
\* file goes only in the step that handles the close event of that process,
\* also after a timeout, where the job is settled and the file stays until
\* the killed process closes.
C29_DeletedOnlyOnClose ==
  /\ [](\A j \in Jobs : procState[j] \in {"running", "exited"}
                          => files[XmlPath(jobId[j])] = xml[j])
  /\ [][\A j \in Jobs :
          (jobId[j] # NoJobId /\ FileExists(XmlPath(jobId[j]))
             /\ files'[XmlPath(jobId[j])] = NoFile)
            => procState[j] = "exited" /\ procState'[j] = "closed"]_vars

C29_Witness ==
  \E j, k \in Jobs :
    /\ result[j] = TimeoutError /\ procState[j] = "running"
    /\ FileExists(XmlPath(jobId[j]))
    /\ result[k] = TimeoutError /\ procState[k] = "closed"
    /\ ~FileExists(XmlPath(jobId[k]))

\* C30: every job whose process was launched settles in the end, whatever
\* the process does (never exits, writes nothing, ignores SIGTERM): once the
\* timer has fired the promise is resolved or rejected.
C30_LaunchedJobSettles ==
  /\ [](\A j \in Jobs : timer[j] = "fired" => Settled(j))
  /\ (procState[1] = "running") ~> Settled(1)

C30_Witness ==
  /\ procState[1] = "running" /\ onTerm[1] = "ignore"
  /\ received[1] = <<>>
  /\ timer[1] = "fired" /\ result[1] = TimeoutError

\* the earliest registered of a set of sessions
Earliest(set) == CHOOSE s \in set : \A t \in set : s <= t

\* C31: with more than one session open, every follow-up request is handed
\* to the earliest registered session that is still open, whichever client
\* sent it; a session registered later is handed follow-up requests only
\* once every session registered before it has disconnected.
C31_EarliestOpenSession ==
  \A i \in 1 .. Len(posts) :
    /\ Cardinality(posts[i].opened) > 1 => posts[i].to = Earliest(posts[i].opened)
    /\ posts[i].to # NoSession
         => \A s \in posts[i].opened : posts[i].to <= s

\* positions of the operations of the given types in a command list
Positions(commands, types) == {i \in 1 .. Len(commands) : commands[i].type \in types}

\* the files of the operations of one type, in the order of the list
FilesOf(commands, type) ==
  LET RECURSIVE Walk(_)
      Walk(rest) ==
        IF rest = <<>> THEN <<>>
        ELSE (IF Head(rest).type = type THEN <<Head(rest).file>> ELSE <<>>)
             \o Walk(Tail(rest))
  IN  Walk(commands)

\* C32: the command list composed by solibri_check_model,
\* solibri_quantity_takeoff, solibri_create_model and solibri_update_model
\* holds exactly one exit and it is the last operation; in
\* solibri_check_model the model is opened first, every classification and
\* ruleset is opened before the one check, and the report and save
\* operations come after it.
C32_ExitLastCheckInOrder ==
  (Dispatched /\ toolCall.handler.called) =>
    LET commands == toolCall.handler.commands
        args == toolCall.args
    IN  /\ Positions(commands, {"exit"}) = {Len(commands)}
        /\ toolCall.name = "solibri_check_model" =>
             /\ commands[1] = FileCmd("openmodel", args.modelPath)
             /\ Cardinality(Positions(commands, {"check"})) = 1
             /\ FilesOf(commands, "openclassification") = OrEmpty(args.classifications)
             /\ FilesOf(commands, "openruleset") = args.rulesets
             /\ \A k \in Positions(commands, {"check"}) :
                  /\ \A i \in Positions(commands, {"openmodel", "openclassification",
                                                   "openruleset"}) : i < k
                  /\ \A i \in Positions(commands, {"bcfreport", "savemodel"}) : i > k

C32_Witness ==
  /\ Dispatched /\ toolCall.name = "solibri_check_model"
  /\ toolCall.handler.called
  /\ Len(toolCall.handler.commands) = 7
  /\ toolCall.handler.commands[3].type = "openruleset"
  /\ toolCall.handler.commands[5].type = "bcfreport"

=============================================================================
